---- MODULE Spec2Model ----
(***************************************************************************)
(* Model of the scheme-redirect middleware (src/src/middleware.rs) and of  *)
(* the HSTS header configuration (src/src/data.rs).                        *)
(*                                                                         *)
(* Strings are sequences of byte values (ASCII codes), so that formatting, *)
(* splitting and header-value validation are computed, not assumed.        *)
(* Option<T> is a sequence of length 0 (None) or 1 (Some(x)).              *)
(***************************************************************************)
EXTENDS Integers, Sequences, FiniteSets

VARIABLES protocols, hsts, port, pc, req, to_redirect, nextCalls, next_result, result

vars == <<protocols, hsts, port, pc, req, to_redirect, nextCalls, next_result, result>>

None == <<>>
Some(x) == <<x>>

(***************************************************************************)
(* Bounds                                                                  *)
(***************************************************************************)
\* the next handler sets between 0 and MaxStsValues Strict-Transport-Security
\* headers of its own on its response
MaxStsValues == 2

(***************************************************************************)
(* String literals of the source, as bytes                                 *)
(***************************************************************************)
\* "https"
HttpsStr == <<104, 116, 116, 112, 115>>
\* "http"
HttpStr == <<104, 116, 116, 112>>
\* "ws"
WsStr == <<119, 115>>
\* "https://"
HttpsPrefix == <<104, 116, 116, 112, 115, 58, 47, 47>>
\* ":"
ColonStr == <<58>>
\* "max-age="
MaxAgeStr == <<109, 97, 120, 45, 97, 103, 101, 61>>
\* "; includeSubDomains"
SubdomainsStr == <<59, 32, 105, 110, 99, 108, 117, 100, 101, 83, 117, 98, 68, 111, 109, 97, 105, 110, 115>>
\* "; preload"
PreloadStr == <<59, 32, 112, 114, 101, 108, 111, 97, 100>>

(***************************************************************************)
(* Integer formatting ({secs}, {port} in format!/write!)                   *)
(***************************************************************************)
RECURSIVE ToDecimal(_)
ToDecimal(n) ==
    IF n < 10 THEN <<48 + n>>
    ELSE ToDecimal(n \div 10) \o <<48 + (n % 10)>>

(***************************************************************************)
(* data.rs                                                                 *)
(***************************************************************************)
Protocols == {"IPv4", "IPv6", "Both", "None"}

\* fmt with the two directives written in the other order
fmt_preload_first(sts) ==
    LET secs == sts.duration
        subdomains == IF sts.include_subdomains THEN SubdomainsStr ELSE <<>>
        preload == IF sts.preload THEN PreloadStr ELSE <<>>
    IN  MaxAgeStr \o ToDecimal(secs) \o preload \o subdomains

\* impl Display for StrictTransportSecurity
fmt(sts) ==
    LET secs == sts.duration
        subdomains == IF sts.include_subdomains THEN SubdomainsStr ELSE <<>>
        preload == IF sts.preload THEN PreloadStr ELSE <<>>
    IN  MaxAgeStr \o ToDecimal(secs) \o subdomains \o preload

\* HeaderValue::from_str: every byte must be a visible ASCII character, a
\* space or a tab; otherwise the conversion fails
is_valid(b) == (b >= 32 /\ b # 127) \/ b = 9

from_str(s) ==
    IF \A i \in 1..Len(s) : is_valid(s[i]) THEN Some(s) ELSE None

\* insert_into with HeaderMap::append in place of HeaderMap::insert
insert_into_append(sts, res) ==
    LET v == from_str(fmt(sts))
    IN  IF v = None THEN [panicked |-> TRUE, res |-> res]
        ELSE [panicked |-> FALSE, res |-> [res EXCEPT !.sts = Append(@, v[1])]]

\* StrictTransportSecurity::insert_into: HeaderMap::insert replaces every
\* value stored under the name; unwrap() panics when the conversion failed
insert_into(sts, res) ==
    LET v == from_str(fmt(sts))
    IN  IF v = None THEN [panicked |-> TRUE, res |-> res]
        ELSE [panicked |-> FALSE, res |-> [res EXCEPT !.sts = <<v[1]>>]]

(***************************************************************************)
(* middleware.rs                                                           *)
(***************************************************************************)
\* Ipv6Addr::to_ipv4_mapped on the eight 16-bit segments of the address:
\* the octets must be 0 x 10, 0xff, 0xff, a, b, c, d
to_ipv4_mapped(segs) ==
    LET octets == [i \in 1..16 |->
                     IF i % 2 = 1 THEN segs[(i + 1) \div 2] \div 256
                     ELSE segs[i \div 2] % 256]
    IN  IF (\A i \in 1..10 : octets[i] = 0) /\ octets[11] = 255 /\ octets[12] = 255
        THEN Some(<<octets[13], octets[14], octets[15], octets[16]>>)
        ELSE None

\* the closure without the to_ipv4_mapped test: every V6 peer counts as IPv6
peer_selected_unmapped(p, a) ==
    IF a.kind = "V6" THEN
        IF p \in {"IPv6", "Both"} THEN Some("unit") ELSE None
    ELSE IF a.kind = "V4" /\ p \in {"IPv4", "Both"} THEN Some("unit")
    ELSE None

\* the closure passed to peer_addr().and_then(..)
peer_selected(p, a) ==
    IF a.kind = "V6" THEN
        IF to_ipv4_mapped(a.segs) # None THEN
            IF p \in {"IPv4", "Both"} THEN Some("unit") ELSE None
        ELSE IF p \in {"IPv6", "Both"} THEN Some("unit")
        ELSE None
    ELSE IF a.kind = "V4" /\ p \in {"IPv4", "Both"} THEN Some("unit")
    ELSE None

\* let to_redirect = !matches!(protocols, None) && peer_addr().and_then(..).is_some()
compute_to_redirect(p, peer) ==
    /\ p # "None"
    /\ (IF peer = None THEN None ELSE peer_selected(p, peer[1])) # None

\* str::split_once(':'): the text before and after the first ':'
RECURSIVE find(_, _, _)
find(s, b, i) ==
    IF i > Len(s) THEN 0
    ELSE IF s[i] = b THEN i
    ELSE find(s, b, i + 1)

split_once(s, b) ==
    LET i == find(s, b, 1)
    IN  IF i = 0 THEN None
        ELSE Some(<<SubSeq(s, 1, i - 1), SubSeq(s, i + 1, Len(s))>>)

unwrap_or(o, d) == IF o = None THEN d ELSE o[1]

\* web::Redirect::to(uri).respond_to(&req).map_into_right_body(): a 307
\* Temporary Redirect with an empty (right) body; the Location header is set
\* when the uri converts to a header value
redirect_respond_to(uri) ==
    [status |-> 307, location |-> from_str(uri), sts |-> <<>>, body |-> "Right"]

\* apply_hsts falling back on StrictTransportSecurity::default() when no
\* policy is configured
apply_hsts_default(res, h) ==
    IF h # None THEN insert_into(h[1], res)
    ELSE insert_into([duration |-> 300, include_subdomains |-> FALSE, preload |-> FALSE], res)

\* apply_hsts
apply_hsts(res, h) ==
    IF h # None THEN insert_into(h[1], res)
    ELSE [panicked |-> FALSE, res |-> res]

\* host name the server falls back on when the request names none
\* ("localhost:8080")
ServerHost == <<108, 111, 99, 97, 108, 104, 111, 115, 116, 58, 56, 48, 56, 48>>

\* conn_info.host(): always a string; the request's Host header or URI
\* authority when there is one, the server's own name otherwise
conn_host(r) == unwrap_or(r.host, ServerHost)

\* the redirect uri built in the redirect branch of call
redirect_uri(r, prt) ==
    LET host == conn_host(r)
        hostname == unwrap_or(split_once(host, 58), <<host, <<>>>>)[1]
        path == r.path
    IN  IF prt # None
        THEN HttpsPrefix \o hostname \o ColonStr \o ToDecimal(prt[1]) \o path
        ELSE HttpsPrefix \o hostname \o path

Ok(res) == [kind |-> "Ok", res |-> Some(res), err |-> None]
Err(e) == [kind |-> "Err", res |-> None, err |-> Some(e)]
Panic == [kind |-> "Panic", res |-> None, err |-> None]

finish(a) == IF a.panicked THEN Panic ELSE Ok(a.res)

(***************************************************************************)
(* Inputs                                                                  *)
(***************************************************************************)
\* 192.0.2.1
V4Peers == {[kind |-> "V4", octets |-> <<192, 0, 2, 1>>, segs |-> <<>>]}
\* ::ffff:192.0.2.1
MappedV6Peers == {[kind |-> "V6", octets |-> <<>>, segs |-> <<0, 0, 0, 0, 0, 65535, 49152, 513>>]}
\* 2001:db8::1 and the IPv4-compatible (not mapped) ::192.0.2.1
OtherV6Peers ==
    {[kind |-> "V6", octets |-> <<>>, segs |-> <<8193, 3512, 0, 0, 0, 0, 0, 1>>],
     [kind |-> "V6", octets |-> <<>>, segs |-> <<0, 0, 0, 0, 0, 0, 49152, 513>>]}

Peers == {None} \cup {Some(a) : a \in V4Peers \cup MappedV6Peers \cup OtherV6Peers}

Schemes == {HttpStr, HttpsStr, WsStr}

\* "a.io"
BareName == <<97, 46, 105, 111>>
\* "[::1]"
BracketedV6 == <<91, 58, 58, 49, 93>>
\* ":8080"
OrigPortSuffix == <<58, 56, 48, 56, 48>>

HostStrings ==
    {BareName, BareName \o OrigPortSuffix, BracketedV6, BracketedV6 \o OrigPortSuffix}

Hosts == {None} \cup {Some(h) : h \in HostStrings}

\* "/" and "/a"
Paths == {<<47>>, <<47, 97>>}

\* no query, and "x=1"
Queries == {None, Some(<<120, 61, 49>>)}

Requests ==
    [peer : Peers, scheme : Schemes, host : Hosts, path : Paths, query : Queries]

Durations == {0, 600, 31536000}

HstsPolicies ==
    [duration : Durations, include_subdomains : BOOLEAN, preload : BOOLEAN]

RedirectPorts == {None, Some(8443)}

\* header values the next handler may have stored under
\* Strict-Transport-Security: "max-age=0" and "x"
NextStsValues == {MaxAgeStr \o <<48>>, <<120>>}

RECURSIVE SeqsUpTo(_, _)
SeqsUpTo(S, n) ==
    IF n = 0 THEN {<<>>}
    ELSE LET T == SeqsUpTo(S, n - 1)
         IN  T \cup {Append(t, x) : t \in {u \in T : Len(u) = n - 1}, x \in S}

NextResponses ==
    [status : {200}, location : {None}, sts : SeqsUpTo(NextStsValues, MaxStsValues),
     body : {"Left"}]

NextErrors == {"E1", "E2"}

(***************************************************************************)
(* State machine: one request at a time through SchemeRedirectMiddleware  *)
(***************************************************************************)
\* SchemeRedirect::new / new_transform: the configuration is fixed here
Init ==
    /\ protocols \in Protocols
    /\ hsts \in {None} \cup {Some(h) : h \in HstsPolicies}
    /\ port \in RedirectPorts
    /\ pc = "idle"
    /\ req = None
    /\ to_redirect = FALSE
    /\ nextCalls = 0
    /\ next_result = None
    /\ result = None

\* call, up to the creation of the future: the redirect test on the peer
call(r) ==
    /\ pc = "idle"
    /\ req' = Some(r)
    /\ to_redirect' = compute_to_redirect(protocols, r.peer)
    /\ nextCalls' = 0
    /\ next_result' = None
    /\ result' = None
    /\ pc' = "created"
    /\ UNCHANGED <<protocols, hsts, port>>

\* poll calling the next service before it tests for the redirect
poll_call_first ==
    /\ pc = "created"
    /\ IF to_redirect /\ req[1].scheme # HttpsStr
       THEN /\ result' = Some(finish(apply_hsts(
                              redirect_respond_to(redirect_uri(req[1], port)), hsts)))
            /\ pc' = "done"
            /\ nextCalls' = nextCalls + 1
       ELSE /\ nextCalls' = nextCalls + 1
            /\ pc' = "awaiting"
            /\ UNCHANGED result
    /\ UNCHANGED <<protocols, hsts, port, req, to_redirect, next_result>>

\* the async block, up to its return (redirect) or to service.call(req).await
poll ==
    /\ pc = "created"
    /\ IF to_redirect /\ req[1].scheme # HttpsStr
       THEN /\ result' = Some(finish(apply_hsts(
                              redirect_respond_to(redirect_uri(req[1], port)), hsts)))
            /\ pc' = "done"
            /\ UNCHANGED nextCalls
       ELSE /\ nextCalls' = nextCalls + 1
            /\ pc' = "awaiting"
            /\ UNCHANGED result
    /\ UNCHANGED <<protocols, hsts, port, req, to_redirect, next_result>>

\* service.call(req).await resolves to Ok(res): .map(|mut res| { apply_hsts; .. })
next_ok(res) ==
    /\ pc = "awaiting"
    /\ next_result' = Some(Ok(res))
    /\ result' = Some(finish(apply_hsts(res, hsts)))
    /\ pc' = "done"
    /\ UNCHANGED <<protocols, hsts, port, req, to_redirect, nextCalls>>

\* next_err answering the error with a response of its own
next_err_recover(e) ==
    /\ pc = "awaiting"
    /\ next_result' = Some(Err(e))
    /\ result' = Some(finish(apply_hsts(
                        [status |-> 500, location |-> None, sts |-> <<>>, body |-> "Right"],
                        hsts)))
    /\ pc' = "done"
    /\ UNCHANGED <<protocols, hsts, port, req, to_redirect, nextCalls>>

\* service.call(req).await resolves to Err(e): Result::map leaves it alone
next_err(e) ==
    /\ pc = "awaiting"
    /\ next_result' = Some(Err(e))
    /\ result' = Some(Err(e))
    /\ pc' = "done"
    /\ UNCHANGED <<protocols, hsts, port, req, to_redirect, nextCalls>>

\* the future has completed and is dropped; the middleware keeps nothing
complete ==
    /\ pc = "done"
    /\ pc' = "idle"
    /\ req' = None
    /\ to_redirect' = FALSE
    /\ nextCalls' = 0
    /\ next_result' = None
    /\ result' = None
    /\ UNCHANGED <<protocols, hsts, port>>

Next ==
    \/ \E r \in Requests : call(r)
    \/ poll
    \/ \E res \in NextResponses : next_ok(res)
    \/ \E e \in NextErrors : next_err(e)
    \/ complete

Spec == Init /\ [][Next]_vars

TypeOK ==
    /\ protocols \in Protocols
    /\ pc \in {"idle", "created", "awaiting", "done"}
    /\ nextCalls \in 0..1
    /\ to_redirect \in BOOLEAN

(***************************************************************************)
(* Vocabulary of the properties                                            *)
(***************************************************************************)
Done == pc = "done"
Returned == Done /\ result[1].kind = "Ok"
Response == result[1].res[1]
\* the response was built by the middleware itself (right body)
Redirected == Returned /\ Response.body = "Right"
NextOk == next_result # None /\ next_result[1].kind = "Ok"
NextFailed == next_result # None /\ next_result[1].kind = "Err"

\* address family of a peer, by the sample set it was drawn from
Family(peer) ==
    IF peer = None THEN "Unknown"
    ELSE IF peer[1] \in V4Peers \cup MappedV6Peers THEN "IPv4"
    ELSE "IPv6"

\* decision table of the protocol policy
Selects(p, f) ==
    \/ p = "IPv4" /\ f = "IPv4"
    \/ p = "IPv6" /\ f = "IPv6"
    \/ p = "Both" /\ f \in {"IPv4", "IPv6"}

\* "?"
QuestionStr == <<63>>

StartsWith(s, pre) == Len(s) >= Len(pre) /\ SubSeq(s, 1, Len(pre)) = pre
EndsWith(s, suf) == Len(s) >= Len(suf) /\ SubSeq(s, Len(s) - Len(suf) + 1, Len(s)) = suf

\* the authority of an https uri: what stands between "https://" and the
\* first "/" after it
Authority(uri) == SubSeq(uri, Len(HttpsPrefix) + 1, find(uri, 47, Len(HttpsPrefix) + 1) - 1)

\* a host without its port suffix: a bracketed literal ends at its "]",
\* any other host at its first ":"
HostWithoutPort(h) ==
    IF h[1] = 91 THEN SubSeq(h, 1, find(h, 93, 1))
    ELSE IF find(h, 58, 1) = 0 THEN h
    ELSE SubSeq(h, 1, find(h, 58, 1) - 1)

RECURSIVE DecimalValue(_)
DecimalValue(ds) ==
    IF Len(ds) = 0 THEN 0
    ELSE 10 * DecimalValue(SubSeq(ds, 1, Len(ds) - 1)) + (ds[Len(ds)] - 48)

\* ds is the base-10 numeral of n: digits only, no leading zero
IsNumeralOf(ds, n) ==
    /\ Len(ds) >= 1
    /\ \A i \in 1..Len(ds) : ds[i] \in 48..57
    /\ Len(ds) > 1 => ds[1] # 48
    /\ DecimalValue(ds) = n

\* v is the header value of policy p, read from the text and not printed
IsHstsValueOf(v, p) ==
    LET tail == (IF p.include_subdomains THEN SubdomainsStr ELSE <<>>)
                    \o (IF p.preload THEN PreloadStr ELSE <<>>)
    IN  /\ StartsWith(v, MaxAgeStr)
        /\ EndsWith(v, tail)
        /\ Len(v) > Len(MaxAgeStr) + Len(tail)
        /\ IsNumeralOf(SubSeq(v, Len(MaxAgeStr) + 1, Len(v) - Len(tail)), p.duration)

(***************************************************************************)
(* Properties                                                              *)
(***************************************************************************)
\* C1: once the branch is taken, the redirect path was taken exactly when the
\* scheme is not https and the protocol policy selects the peer's family
\* (absent peer: Unknown, selected by nothing; IPv4 and IPv4-mapped IPv6:
\* IPv4; any other IPv6: IPv6; policy None selects nothing).
C1_RedirectIffSelected ==
    pc \in {"awaiting", "done"} =>
        ((pc = "done" /\ nextCalls = 0 /\ Redirected)
            <=> (req[1].scheme # HttpsStr /\ Selects(protocols, Family(req[1].peer))))

C1_Witness ==
    /\ Redirected
    /\ protocols = "IPv4"
    /\ req[1].peer # None
    /\ req[1].peer[1] \in MappedV6Peers

\* C2: the next handler is invoked at most once per request: not at all when
\* the request is redirected (the response is then a 307 with a Location
\* header), once when it is not, and then its response is the one returned.
C2_NextAtMostOnce ==
    /\ nextCalls <= 1
    /\ Done =>
        IF Redirected
        THEN /\ nextCalls = 0
             /\ next_result = None
             /\ Response.status = 307
             /\ Response.location # None
        ELSE /\ nextCalls = 1
             /\ next_result # None
             /\ NextOk =>
                  /\ Returned
                  /\ Response.status = next_result[1].res[1].status
                  /\ Response.location = next_result[1].res[1].location
                  /\ Response.body = next_result[1].res[1].body

C2_Witness ==
    /\ Done
    /\ ~Redirected
    /\ NextOk
    /\ nextCalls = 1
    /\ req[1].scheme = HttpStr

\* C3 (as claimed): the Location of a redirect has scheme https and ends in
\* the request's path, followed by "?" and the query when there is one.
C3_LocationKeepsPathAndQuery ==
    (Redirected /\ Response.location # None) =>
        /\ StartsWith(Response.location[1], HttpsPrefix)
        /\ EndsWith(Response.location[1],
                    req[1].path \o (IF req[1].query # None /\ req[1].query[1] # <<>>
                                    THEN QuestionStr \o req[1].query[1]
                                    ELSE <<>>))

\* C4 (as claimed): the authority of the Location is the request's host
\* without its port suffix, followed by ":<configured port>" when a redirect
\* port is configured and by nothing when none is.
C4_AuthorityIsHostAndConfiguredPort ==
    (Redirected /\ Response.location # None /\ req[1].host # None) =>
        Authority(Response.location[1]) =
            HostWithoutPort(req[1].host[1])
                \o (IF port # None THEN ColonStr \o ToDecimal(port[1]) ELSE <<>>)

\* C5: with an HSTS policy configured, every request the next handler did
\* not fail returns a response with exactly one Strict-Transport-Security
\* value, the one of the configured policy, whatever the next handler had
\* stored; inserting again leaves one value, the later one.
C5_HstsExactlyOnce ==
    (Done /\ hsts # None /\ ~NextFailed) =>
        /\ Returned
        /\ Response.sts = <<fmt(hsts[1])>>
        /\ \A p \in {q \in HstsPolicies : q.duration = 600} :
              LET again == insert_into(p, Response)
              IN  ~again.panicked /\ again.res.sts = <<fmt(p)>>

C5_Witness ==
    /\ Returned
    /\ hsts # None
    /\ NextOk
    /\ Len(next_result[1].res[1].sts) = 2
    /\ next_result[1].res[1].sts[1] # fmt(hsts[1])

\* C6 (as claimed): without an HSTS policy no returned response carries a
\* Strict-Transport-Security header.
C6_NoHstsHeaderAtAll ==
    (Returned /\ hsts = None) => Response.sts = <<>>

\* C6 (amended): without an HSTS policy the middleware adds no
\* Strict-Transport-Security header: a redirect carries none and a forwarded
\* response carries exactly the values the next handler stored.
C6_NoHstsHeaderAdded ==
    (Done /\ hsts = None /\ ~NextFailed) =>
        /\ Returned
        /\ IF Redirected THEN Response.sts = <<>>
           ELSE Response.sts = next_result[1].res[1].sts

C6_Witness ==
    /\ Returned
    /\ hsts = None
    /\ NextOk
    /\ next_result[1].res[1].sts # <<>>

\* C7: the header value of a policy is "max-age=" and the base-10 numeral of
\* its duration, then "; includeSubDomains" exactly when include_subdomains,
\* then "; preload" exactly when preload, in that order, for every request.
C7_HstsValueFormat ==
    (Returned /\ hsts # None) =>
        /\ Len(Response.sts) = 1
        /\ IsHstsValueOf(Response.sts[1], hsts[1])

C7_Witness ==
    /\ Returned
    /\ hsts = Some([duration |-> 600, include_subdomains |-> TRUE, preload |-> TRUE])
    /\ Response.sts = <<MaxAgeStr \o <<54, 48, 48>> \o SubdomainsStr \o PreloadStr>>

\* C8 (as claimed): a request that names no host is never redirected; it is
\* forwarded to the next handler.
C8_NoHostNoRedirect ==
    (Done /\ req[1].host = None) => (~Redirected /\ nextCalls = 1)

\* C10: when the next handler fails, its error is returned unchanged, no
\* response (and so no HSTS header) is produced, and the next handler was
\* called once and the request not redirected.
C10_ErrorPassedThrough ==
    (Done /\ NextFailed) =>
        /\ result = next_result
        /\ result[1].res = None
        /\ nextCalls = 1
        /\ ~Redirected

C10_Witness ==
    /\ Done
    /\ NextFailed
    /\ hsts # None
    /\ result[1].kind = "Err"

\* the unwrap() of insert_into never panics on the policies of the model
NoPanic == result # None => result[1].kind # "Panic"

====
